---- MODULE Spec2Model ----
(***************************************************************************)
(* Model of the retrieval chatbot engine BotEngine in its two variants:    *)
(*   "lazy"  : src/src/BotEngine.py (cache built on the first query,       *)
(*             built-in covid preprocessing)                                *)
(*   "eager" : src/app/BotEngine.py (cache built in __init__, injected     *)
(*             preprocessing function)                                      *)
(* Text is a sequence of one-character strings; long literals that the     *)
(* program only concatenates are kept as one element.  Similarity scores   *)
(* and thresholds are fixed-point integers: 1.0 is One.                    *)
(***************************************************************************)
EXTENDS Integers, Sequences, FiniteSets, TLC

VARIABLES variant, args, env, self, stats, last, loop, hist, pp, peer

vars == <<variant, args, env, self, stats, last, loop, hist, pp, peer>>

\* what the operations of one engine driven by a front end leave alone: the
\* record of first answers, the preprocessing run, the second engine
aux == <<hist, pp, peer>>

----------------------------------------------------------------------------
(* Bounds of the model *)

\* vector components are multiples of 1/Half, so 1.0 as a score is Half*Half
Half == 2
\* largest number of rows in the knowledge-base file
MaxKB == 2
\* largest number of get_response calls on one engine
MaxQueries == 2
\* largest number of pieces a sentence given to preprocess_sentences is made of
MaxTokens == 3

One == Half * Half

----------------------------------------------------------------------------
(* Characters and strings *)

LowerOf ==
  [c \in {"A","B","C","D","E","F","G","H","I","J","K","L","M","N","O","P","Q",
          "R","S","T","U","V","W","X","Y","Z"} |->
     CASE c = "A" -> "a" [] c = "B" -> "b" [] c = "C" -> "c" [] c = "D" -> "d"
       [] c = "E" -> "e" [] c = "F" -> "f" [] c = "G" -> "g" [] c = "H" -> "h"
       [] c = "I" -> "i" [] c = "J" -> "j" [] c = "K" -> "k" [] c = "L" -> "l"
       [] c = "M" -> "m" [] c = "N" -> "n" [] c = "O" -> "o" [] c = "P" -> "p"
       [] c = "Q" -> "q" [] c = "R" -> "r" [] c = "S" -> "s" [] c = "T" -> "t"
       [] c = "U" -> "u" [] c = "V" -> "v" [] c = "W" -> "w" [] c = "X" -> "x"
       [] c = "Y" -> "y" [] c = "Z" -> "z"]

\* str.lower() on one character
LowerChar(c) == IF c \in DOMAIN LowerOf THEN LowerOf[c] ELSE c

\* str.lower()
lower(s) == [i \in 1..Len(s) |-> LowerChar(s[i])]

\* the characters str.strip() removes
Whitespace == {" ", "\t", "\n", "\r", "\f"}

RECURSIVE lstrip(_)
lstrip(s) ==
  IF s = <<>> THEN <<>>
  ELSE IF Head(s) \in Whitespace THEN lstrip(Tail(s)) ELSE s

RECURSIVE rstrip(_)
rstrip(s) ==
  IF s = <<>> THEN <<>>
  ELSE IF s[Len(s)] \in Whitespace THEN rstrip(SubSeq(s, 1, Len(s) - 1)) ELSE s

\* str.strip()
strip(s) == rstrip(lstrip(s))

\* str.endswith(suffix)
endswith(s, suffix) ==
  /\ Len(s) >= Len(suffix)
  /\ SubSeq(s, Len(s) - Len(suffix) + 1, Len(s)) = suffix

\* the pattern alternatives of r'(covid-19|covid)' and the replacement
covid19 == <<"c","o","v","i","d","-","1","9">>
covid == <<"c","o","v","i","d">>
coronavirus == <<"c","o","r","o","n","a","v","i","r","u","s">>

\* the alternative alt matches at the start of s, ignoring case (flags=re.I)
MatchesAt(s, alt) ==
  /\ Len(s) >= Len(alt)
  /\ lower(SubSeq(s, 1, Len(alt))) = alt

\* the mutant of re_sub: the alternatives in the order (covid|covid-19), so
\* that the shorter one always wins
RECURSIVE re_sub_short_first(_)
re_sub_short_first(s) ==
  IF s = <<>> THEN <<>>
  ELSE IF MatchesAt(s, covid)
       THEN coronavirus \o re_sub_short_first(SubSeq(s, Len(covid) + 1, Len(s)))
  ELSE <<Head(s)>> \o re_sub_short_first(Tail(s))

\* re.sub(r'(covid-19|covid)', 'coronavirus', s, flags=re.I): leftmost match,
\* the first alternative that matches at a position wins
RECURSIVE re_sub(_)
re_sub(s) ==
  IF s = <<>> THEN <<>>
  ELSE IF MatchesAt(s, covid19)
       THEN coronavirus \o re_sub(SubSeq(s, Len(covid19) + 1, Len(s)))
  ELSE IF MatchesAt(s, covid)
       THEN coronavirus \o re_sub(SubSeq(s, Len(covid) + 1, Len(s)))
  ELSE <<Head(s)>> \o re_sub(Tail(s))

\* the list comprehension over the input sentences
preprocess_sentences(input_sentences) ==
  [i \in 1..Len(input_sentences) |-> re_sub(input_sentences[i])]

----------------------------------------------------------------------------
(* Values of the engine's fields *)

\* self.data before __read_data has returned
NoData == [loaded |-> FALSE, columns |-> {}, rows |-> <<>>]

\* self.response_encodings = None
NoEncodings == [none |-> TRUE, v |-> <<>>]

\* the engine object before __init__ runs
NoEngine ==
  [status |-> "none", data |-> NoData, model |-> FALSE,
   response_encodings |-> NoEncodings]

\* string literals of the two variants
default_response == <<"Sorry, I don't understand. Please try again.">>
UNKNOWN_ANSWER == <<"Sorry, I don't understand. Could you ask questions related to Covid-19">>
default_help_text == <<"__help_text__">>
default_bot_prompt == <<"BOT> ">>

\* the control words of init_bot
exit_word == <<"e","x","i","t">>
help_word == <<"h","e","l","p">>

\* the suffixes __read_data tests
csv_suffix == <<"c","s","v">>
xlsx_suffix == <<"x","l","s","x">>
xls_suffix == <<"x","l","s">>

----------------------------------------------------------------------------
(* Numeric kernel of get_response *)

RECURSIVE SumTo(_, _, _)
SumTo(u, v, k) == IF k = 0 THEN 0 ELSE u[k] * v[k] + SumTo(u, v, k - 1)

\* tf.reduce_sum(tf.multiply(response_encodings, question_encodings), axis=1):
\* one dot product per row of the cache
cosine_similarity(response_encodings, question_encoding) ==
  [i \in 1..Len(response_encodings) |->
     SumTo(response_encodings[i], question_encoding, Len(question_encoding))]

\* tf.math.reduce_max
reduce_max(scores) ==
  CHOOSE m \in {scores[i] : i \in 1..Len(scores)} :
    \A i \in 1..Len(scores) : scores[i] <= m

\* the mutant of argmax: the last index holding the maximum
argmax_last(scores) ==
  CHOOSE i \in 1..Len(scores) :
    /\ scores[i] = reduce_max(scores)
    /\ \A j \in 1..Len(scores) : scores[j] = reduce_max(scores) => j <= i

\* tf.argmax: the smallest index holding the maximum
argmax(scores) ==
  CHOOSE i \in 1..Len(scores) :
    /\ scores[i] = reduce_max(scores)
    /\ \A j \in 1..Len(scores) : scores[j] = reduce_max(scores) => i <= j

\* the mutant of above_threshold: a non-strict comparison
above_threshold_ge(m, t) == m >= t

\* the test `reduce_max(cosine_similarity) > self.similarity_threshold`
above_threshold(m, t) == m > t

\* the mutant of threshold_in_range: the closed interval
threshold_in_range_closed(t) == t >= -One /\ t <= One

\* the test of the assert on similarity_threshold
threshold_in_range(t) == t > -One /\ t < One

\* the mutant of is_callable: the assert is missing
is_callable_any(f) == TRUE

\* callable(preprocess_func): None (the default) and a non-function fail
is_callable(f) == f = "preprocess_sentences"

----------------------------------------------------------------------------
(* The methods of BotEngine.  v is the variant, a the constructor        *)
(* arguments, e the world outside the engine (files, the saved model), s *)
(* the engine object.  A method returns a record; error = "" means that  *)
(* it returned normally, any other value names the exception raised.     *)

\* __read_data: the format is chosen by the end of the path; pd.read_csv or
\* pd.read_excel raises on a file it cannot parse.  reads counts their calls.
read_data(data_path, e) ==
  IF endswith(data_path, csv_suffix)
       \/ endswith(data_path, xlsx_suffix) \/ endswith(data_path, xls_suffix)
  THEN IF e.parseable
       THEN [error |-> "", reads |-> 1,
             data |-> [loaded |-> TRUE, columns |-> e.columns, rows |-> e.rows]]
       ELSE [error |-> "ParserError", reads |-> 1, data |-> NoData]
  ELSE [error |-> "ValueError", reads |-> 0, data |-> NoData]

\* __get_model: tf.saved_model.load, its exception logged and raised again
get_model(e) ==
  IF e.loadable THEN [error |-> "", model |-> TRUE]
  ELSE [error |-> "ModelLoadError", model |-> FALSE]

\* self.data[name]: a column of the data frame, KeyError when absent
column(data, name) ==
  IF name \in data.columns
  THEN [error |-> "", values |-> [i \in 1..Len(data.rows) |-> data.rows[i][name]]]
  ELSE [error |-> "KeyError", values |-> <<>>]

\* the mutant of call_preprocess: the function injected into the eager
\* variant returns its sentences as they are
call_preprocess_eager_raw(v, a, sentences) ==
  IF v = "lazy" THEN [error |-> "", values |-> preprocess_sentences(sentences)]
  ELSE IF a.preprocess_func = "preprocess_sentences"
  THEN [error |-> "", values |-> sentences]
  ELSE [error |-> "TypeError", values |-> <<>>]

\* self.__preprocess_sentences(sentences): the method of the lazy variant,
\* the injected preprocess_func of the eager one (calling None raises)
call_preprocess(v, a, sentences) ==
  IF v = "lazy" \/ a.preprocess_func = "preprocess_sentences"
  THEN [error |-> "", values |-> preprocess_sentences(sentences)]
  ELSE [error |-> "TypeError", values |-> <<>>]

\* the mutant of generate_response_encodings: the rows are encoded in
\* reverse order, so the cache is not aligned with the knowledge base
generate_response_encodings_reversed(v, a, e, ans_text, context_text, fault) ==
  LET pa == call_preprocess(v, a, ans_text)
      pc == call_preprocess(v, a, context_text)
      n == Len(pa.values)
  IN IF pa.error # "" THEN [error |-> pa.error, calls |-> 0, encodings |-> <<>>]
     ELSE IF pc.error # "" THEN [error |-> pc.error, calls |-> 0, encodings |-> <<>>]
     ELSE IF fault THEN [error |-> "EncodingError", calls |-> 1, encodings |-> <<>>]
     ELSE [error |-> "", calls |-> 1,
           encodings |-> [i \in 1..n |->
                            e.response_encoder[<<pa.values[n + 1 - i],
                                                 pc.values[n + 1 - i]>>]]]

\* __generate_response_encodings: preprocess answers and contexts, then one
\* batched call of the response_encoder signature; fault is the model call
\* raising.  calls counts the invocations of the signature.
generate_response_encodings(v, a, e, ans_text, context_text, fault) ==
  LET pa == call_preprocess(v, a, ans_text)
      pc == call_preprocess(v, a, context_text)
  IN IF pa.error # "" THEN [error |-> pa.error, calls |-> 0, encodings |-> <<>>]
     ELSE IF pc.error # "" THEN [error |-> pc.error, calls |-> 0, encodings |-> <<>>]
     ELSE IF fault THEN [error |-> "EncodingError", calls |-> 1, encodings |-> <<>>]
     ELSE [error |-> "", calls |-> 1,
           encodings |-> [i \in 1..Len(pa.values) |->
                            e.response_encoder[<<pa.values[i], pc.values[i]>>]]]

\* the mutant of get_question_encodings: the exception is swallowed and a
\* zero vector returned
get_question_encodings_swallow(v, a, e, question_text, fault) ==
  LET pq == call_preprocess(v, a, <<question_text>>)
  IN IF pq.error # "" THEN [error |-> pq.error, calls |-> 0, encoding |-> <<>>]
     ELSE IF fault THEN [error |-> "", calls |-> 1, encoding |-> <<0, 0>>]
     ELSE [error |-> "", calls |-> 1, encoding |-> e.question_encoder[pq.values[1]]]

\* __get_question_encodings: the question becomes a one-element list, is
\* preprocessed and encoded by the question_encoder signature; an exception
\* of either step is logged and raised again
get_question_encodings(v, a, e, question_text, fault) ==
  LET pq == call_preprocess(v, a, <<question_text>>)
  IN IF pq.error # "" THEN [error |-> pq.error, calls |-> 0, encoding |-> <<>>]
     ELSE IF fault THEN [error |-> "EncodingError", calls |-> 1, encoding |-> <<>>]
     ELSE [error |-> "", calls |-> 1, encoding |-> e.question_encoder[pq.values[1]]]

\* the fallback string: the lazy variant appends the help text
fallback(v, a) ==
  IF v = "lazy" THEN default_response \o <<"\n", " ">> \o a.help_text
  ELSE UNKNOWN_ANSWER

\* the mutant of get_response: the call that builds the cache answers with
\* the fallback, as if it had scored the question before the cache was there
get_response_unscored_build(v, a, e, s, question, faultR, faultQ) ==
  IF v = "lazy" /\ s.response_encodings.none
  THEN LET ans == column(s.data, "Answer")
           ctx == column(s.data, "Context")
           g == generate_response_encodings(v, a, e, ans.values, ctx.values, faultR)
           qe == get_question_encodings(v, a, e, question, faultQ)
       IN IF g.error # "" \/ qe.error # ""
          THEN [self |-> s, outcome |-> "raise", value |-> <<>>,
                error |-> "EncodingError", index |-> 0,
                respCalls |-> g.calls, respOk |-> 0, qCalls |-> 0]
          ELSE [self |-> [s EXCEPT !.response_encodings =
                                     [none |-> FALSE, v |-> g.encodings]],
                outcome |-> "return", value |-> fallback(v, a), error |-> "",
                index |-> 0, respCalls |-> g.calls, respOk |-> 1, qCalls |-> qe.calls]
  ELSE LET qe == get_question_encodings(v, a, e, question, faultQ)
           scores == cosine_similarity(s.response_encodings.v, qe.encoding)
       IN IF qe.error # ""
          THEN [self |-> s, outcome |-> "raise", value |-> <<>>, error |-> qe.error,
                index |-> 0, respCalls |-> 0, respOk |-> 0, qCalls |-> qe.calls]
          ELSE [self |-> s, outcome |-> "return",
                value |-> IF reduce_max(scores) > a.similarity_threshold
                          THEN s.data.rows[argmax(scores)]["Answer"]
                          ELSE fallback(v, a),
                error |-> "", index |-> argmax(scores),
                respCalls |-> 0, respOk |-> 0, qCalls |-> qe.calls]

\* the mutant of cache_missing: the cache is rebuilt on every query
cache_missing_always(v, s) == v = "lazy"

\* the lazy variant's test `self.response_encodings is None`
cache_missing(v, s) == v = "lazy" /\ s.response_encodings.none

\* the outcome of a method that raised
Raised(s, err, rc, ro, qc) ==
  [self |-> s, outcome |-> "raise", value |-> <<>>, error |-> err, index |-> 0,
   respCalls |-> rc, respOk |-> ro, qCalls |-> qc]

\* the part of get_response after the cache is there; index is
\* max_cosine_similarity_index, which the method logs
answer_question(v, a, e, s, question, faultQ, rc, ro) ==
  LET qe == get_question_encodings(v, a, e, question, faultQ)
  IN IF qe.error # "" THEN Raised(s, qe.error, rc, ro, qe.calls)
     ELSE LET scores == cosine_similarity(s.response_encodings.v, qe.encoding)
              max_cosine_similarity_index == argmax(scores)
          IN [self |-> s, outcome |-> "return",
              value |-> IF above_threshold(reduce_max(scores), a.similarity_threshold)
                        THEN s.data.rows[max_cosine_similarity_index]["Answer"]
                        ELSE fallback(v, a),
              error |-> "", index |-> max_cosine_similarity_index,
              respCalls |-> rc, respOk |-> ro, qCalls |-> qe.calls]

\* get_response: the lazy variant first builds the cache when it is missing
get_response(v, a, e, s, question, faultR, faultQ) ==
  IF cache_missing(v, s)
  THEN LET ans == column(s.data, "Answer")
           ctx == column(s.data, "Context")
       IN IF ans.error # "" THEN Raised(s, ans.error, 0, 0, 0)
          ELSE IF ctx.error # "" THEN Raised(s, ctx.error, 0, 0, 0)
          ELSE LET g == generate_response_encodings(v, a, e, ans.values, ctx.values, faultR)
               IN IF g.error # "" THEN Raised(s, g.error, g.calls, 0, 0)
                  ELSE answer_question(v, a, e,
                         [s EXCEPT !.response_encodings = [none |-> FALSE, v |-> g.encodings]],
                         question, faultQ, g.calls, 1)
  ELSE answer_question(v, a, e, s, question, faultQ, 0, 0)

\* what __init__ leaves behind when it raises: no engine is returned
InitRaised(err, kb, ml, rc) ==
  [self |-> [NoEngine EXCEPT !.status = "raised"], error |-> err,
   kbReads |-> kb, modelLoads |-> ml, respCalls |-> rc, respOk |-> 0]

\* __init__: the asserts in their order, then __read_data and __get_model;
\* the eager variant then builds the cache
init(v, a, e, fault) ==
  IF ~e.dataExists THEN InitRaised("AssertionError:data_path", 0, 0, 0)
  ELSE IF ~e.modelExists THEN InitRaised("AssertionError:model_path", 0, 0, 0)
  ELSE IF ~e.pbExists THEN InitRaised("AssertionError:saved_model.pb", 0, 0, 0)
  ELSE IF ~threshold_in_range(a.similarity_threshold)
       THEN InitRaised("AssertionError:similarity_threshold", 0, 0, 0)
  ELSE IF v = "eager" /\ ~is_callable(a.preprocess_func)
       THEN InitRaised("AssertionError:preprocess_func", 0, 0, 0)
  ELSE
    LET rd == read_data(a.data_path, e)
    IN IF rd.error # "" THEN InitRaised(rd.error, rd.reads, 0, 0)
       ELSE
         LET gm == get_model(e)
         IN IF gm.error # "" THEN InitRaised(gm.error, rd.reads, 1, 0)
            ELSE IF v = "lazy"
            THEN [self |-> [status |-> "ok", data |-> rd.data, model |-> TRUE,
                            response_encodings |-> NoEncodings],
                  error |-> "", kbReads |-> rd.reads, modelLoads |-> 1,
                  respCalls |-> 0, respOk |-> 0]
            ELSE
              LET ans == column(rd.data, "Answer")
                  ctx == column(rd.data, "Context")
              IN IF ans.error # "" THEN InitRaised(ans.error, rd.reads, 1, 0)
                 ELSE IF ctx.error # "" THEN InitRaised(ctx.error, rd.reads, 1, 0)
                 ELSE
                   LET g == generate_response_encodings(v, a, e, ans.values,
                                                        ctx.values, fault)
                   IN IF g.error # "" THEN InitRaised(g.error, rd.reads, 1, g.calls)
                      ELSE [self |-> [status |-> "ok", data |-> rd.data, model |-> TRUE,
                                      response_encodings |->
                                        [none |-> FALSE, v |-> g.encodings]],
                            error |-> "", kbReads |-> rd.reads, modelLoads |-> 1,
                            respCalls |-> g.calls, respOk |-> 1]

\* the mutant of command: only the first four characters are compared, as a
\* startswith test would
command_prefix(line) ==
  LET k == lower(strip(line))
  IN SubSeq(k, 1, IF Len(k) < 4 THEN Len(k) ELSE 4)

\* init_bot: question.strip().lower(), the key the control words are compared with
command(line) == lower(strip(line))

----------------------------------------------------------------------------
(* Inputs *)

\* questions asked, which are also the lines of the console that are no
\* control input
Questions ==
  { <<"c","o","v","i","d">>,
    <<"C","O","V","I","D","-","1","9">>,
    <<" ","e","x","i","t","s">> }

\* lines typed at the console
Lines ==
  Questions \cup
  { <<" ","E","x","I","T","\t">>,
    <<" "," ","H","E","L","P"," "," ">>,
    <<>>, <<" ","\t">> }

\* rows a knowledge-base file is made of
Entries ==
  { [Context |-> <<"c","o","v","i","d","?">>, Answer |-> <<"C","o","v","i","d">>],
    [Context |-> <<"x">>, Answer |-> <<"b">>] }

RECURSIVE SeqsUpTo(_, _)
SeqsUpTo(S, n) ==
  IF n = 0 THEN {<<>>}
  ELSE LET shorter == SeqsUpTo(S, n - 1)
       IN shorter \cup {Append(r, x) : r \in shorter, x \in S}

\* knowledge bases of 1..MaxKB rows
KnowledgeBases == SeqsUpTo(Entries, MaxKB) \ {<<>>}

\* what the signatures of the saved model are applied to
ResponseInputs == {<<re_sub(x.Answer), re_sub(x.Context)>> : x \in Entries}
QuestionInputs == {re_sub(q) : q \in Questions}

\* vectors the saved model may return
ResponseVectors == {<<Half, 0>>, <<1, 1>>}
QuestionVectors == {<<Half, 0>>, <<-1, 1>>}

\* paths of the knowledge-base file
csv_path == <<"k",".","c","s","v">>
xlsx_path == <<"k",".","x","l","s","x">>
xls_path == <<"k",".","x","l","s">>
txt_path == <<"k",".","t","x","t">>
kcsv_path == <<"k","c","s","v">>
mxls_path == <<"k",".","m","x","l","s">>
Paths == {csv_path, xlsx_path, xls_path, txt_path, kcsv_path, mxls_path}

Variants == {"lazy", "eager"}

\* values given as preprocess_func: the default None, a string, the function
\* of covid_bot.py
PreprocessArgs == {"None", "str", "preprocess_sentences"}

NoLast ==
  [op |-> "none", arg |-> <<>>, outcome |-> "none", value |-> <<>>, error |-> "",
   respCalls |-> 0, respOk |-> 0, qCalls |-> 0, qFailed |-> FALSE, cached |-> FALSE]

NoStats ==
  [kbReads |-> 0, modelLoads |-> 0, respOk |-> 0, queries |-> 0]

LoopOff == [pc |-> "off", line |-> <<>>, printed |-> <<>>, passed |-> <<>>]

\* no question has been answered yet
NoHist ==
  [q \in Questions |-> [seen |-> FALSE, value |-> <<>>, at |-> 0, built |-> FALSE]]

\* preprocess_sentences has not been called
NoPP == [step |-> 0, input |-> <<>>, output |-> <<>>, again |-> <<>>]

\* there is no second engine
NoPeer ==
  [self |-> NoEngine, outcome |-> "none", value |-> <<>>, index |-> 0,
   lazyIndex |-> 0]

InitCommon ==
  /\ self = NoEngine
  /\ stats = NoStats
  /\ last = NoLast
  /\ loop = LoopOff
  /\ hist = NoHist

\* every query input, with valid construction arguments
Init ==
  /\ InitCommon
  /\ pp = NoPP
  /\ peer = NoPeer
  /\ variant \in Variants
  /\ \E t \in {0, Half} :
       args = [data_path |-> xlsx_path, similarity_threshold |-> t,
               preprocess_func |-> IF variant = "eager" THEN "preprocess_sentences"
                                   ELSE "None",
               help_text |-> default_help_text, bot_prompt |-> default_bot_prompt]
  /\ \E kb \in KnowledgeBases, re \in [ResponseInputs -> ResponseVectors],
        qe \in [QuestionInputs -> QuestionVectors] :
       env = [dataExists |-> TRUE, modelExists |-> TRUE, pbExists |-> TRUE,
              parseable |-> TRUE, loadable |-> TRUE,
              columns |-> {"Context", "Answer"}, rows |-> kb,
              response_encoder |-> re, question_encoder |-> qe]

\* every construction input, with one knowledge base and one saved model
InitCtor ==
  /\ InitCommon
  /\ pp = NoPP
  /\ peer = NoPeer
  /\ variant \in Variants
  /\ \E p \in Paths, t \in {-One - 1, -One, 1 - One, 0, One - 1, One, One + 1},
        f \in PreprocessArgs :
       /\ variant = "lazy" => f = "None"
       /\ args = [data_path |-> p, similarity_threshold |-> t, preprocess_func |-> f,
                  help_text |-> default_help_text, bot_prompt |-> default_bot_prompt]
  /\ \E de, me, pe, pa, lo \in BOOLEAN, cols \in SUBSET {"Context", "Answer"} :
       /\ pe => me
       /\ env = [dataExists |-> de, modelExists |-> me, pbExists |-> pe,
                 parseable |-> pa, loadable |-> lo, columns |-> cols,
                 rows |-> <<CHOOSE x \in Entries : x.Answer = <<"b">>>>,
                 response_encoder |-> [x \in ResponseInputs |-> <<Half, 0>>],
                 question_encoder |-> [x \in QuestionInputs |-> <<Half, 0>>]]

----------------------------------------------------------------------------
(* Actions *)

\* BotEngine(...): __init__ runs once
Construct(fault) ==
  /\ self.status = "none"
  /\ LET r == init(variant, args, env, fault)
     IN /\ self' = r.self
        /\ stats' = [stats EXCEPT !.kbReads = r.kbReads, !.modelLoads = r.modelLoads,
                                  !.respOk = r.respOk]
        /\ last' = [NoLast EXCEPT !.op = "init",
                                  !.outcome = IF r.error = "" THEN "return" ELSE "raise",
                                  !.error = r.error,
                                  !.respCalls = r.respCalls, !.respOk = r.respOk]
  /\ UNCHANGED <<variant, args, env, loop, aux>>

\* the record of one get_response call
Called(question, r, faultQ) ==
  [op |-> "get_response", arg |-> question, outcome |-> r.outcome, value |-> r.value,
   error |-> r.error, respCalls |-> r.respCalls, respOk |-> r.respOk,
   qCalls |-> r.qCalls, qFailed |-> (r.qCalls > 0 /\ faultQ),
   cached |-> ~self.response_encodings.none]

Counted(r) ==
  [stats EXCEPT !.respOk = @ + r.respOk, !.queries = @ + 1]

\* bot.get_response(question) called by a front end that does not use
\* init_bot (generate_response of app/mian.py)
GetResponse(question, faultR, faultQ) ==
  /\ self.status = "ok"
  /\ loop.pc = "off"
  /\ stats.queries < MaxQueries
  /\ LET r == get_response(variant, args, env, self, question, faultR, faultQ)
     IN /\ self' = r.self
        /\ stats' = Counted(r)
        /\ last' = Called(question, r, faultQ)
  /\ UNCHANGED <<variant, args, env, loop, aux>>

\* bot.init_bot() is entered
StartBot ==
  /\ self.status = "ok"
  /\ loop.pc = "off"
  /\ loop' = [LoopOff EXCEPT !.pc = "running"]
  /\ UNCHANGED <<variant, args, env, self, stats, last, aux>>

\* one pass of the `while True` of init_bot on the line read by input()
BotIteration(line, faultR, faultQ) ==
  /\ loop.pc = "running"
  /\ IF command(line) = exit_word
     THEN /\ loop' = [pc |-> "exited", line |-> line, printed |-> <<>>, passed |-> <<>>]
          /\ UNCHANGED <<self, stats, last>>
     ELSE IF command(line) = help_word
     THEN /\ loop' = [pc |-> "running", line |-> line, printed |-> <<args.help_text>>,
                      passed |-> <<>>]
          /\ UNCHANGED <<self, stats, last>>
     ELSE IF command(line) = <<>>
     THEN /\ loop' = [pc |-> "running", line |-> line, printed |-> <<>>, passed |-> <<>>]
          /\ UNCHANGED <<self, stats, last>>
     ELSE /\ stats.queries < MaxQueries
          /\ LET r == get_response(variant, args, env, self, line, faultR, faultQ)
             IN /\ self' = r.self
                /\ stats' = Counted(r)
                /\ last' = Called(line, r, faultQ)
                /\ loop' = IF r.outcome = "return"
                           THEN [pc |-> "running", line |-> line,
                                 printed |-> <<args.bot_prompt \o <<" ">> \o r.value>>,
                                 passed |-> <<line>>]
                           ELSE [pc |-> "crashed", line |-> line, printed |-> <<>>,
                                 passed |-> <<line>>]
  /\ UNCHANGED <<variant, args, env, aux>>

Next ==
  \/ \E fault \in BOOLEAN : Construct(fault)
  \/ \E q \in Questions, faultR, faultQ \in BOOLEAN : GetResponse(q, faultR, faultQ)
  \/ StartBot
  \/ \E line \in Lines, faultR, faultQ \in BOOLEAN : BotIteration(line, faultR, faultQ)

Spec == Init /\ [][Next]_vars

\* the record of first answers after get_response(question) ended as r: the
\* string returned by the first call that returned, the number of that
\* call, and whether that call built the cache
Remembered(question, r) ==
  [hist EXCEPT ![question] =
     IF r.outcome = "return" /\ ~@.seen
     THEN [seen |-> TRUE, value |-> r.value, at |-> stats.queries + 1,
           built |-> r.respOk = 1]
     ELSE @]

\* bot.get_response(question), its first answer per question kept; one call
\* more than MaxQueries, so that a question can be repeated after others
Ask(question, faultR, faultQ) ==
  /\ self.status = "ok"
  /\ stats.queries < MaxQueries + 1
  /\ LET r == get_response(variant, args, env, self, question, faultR, faultQ)
     IN /\ self' = r.self
        /\ stats' = Counted(r)
        /\ last' = Called(question, r, faultQ)
        /\ hist' = Remembered(question, r)
  /\ UNCHANGED <<variant, args, env, loop, pp, peer>>

NextAsk ==
  \/ \E fault \in BOOLEAN : Construct(fault)
  \/ \E q \in Questions, faultR, faultQ \in BOOLEAN : Ask(q, faultR, faultQ)

\* every saved model and every knowledge base of MaxKB rows, with valid
\* construction arguments and the threshold 0
InitAsk ==
  /\ InitCommon
  /\ pp = NoPP
  /\ peer = NoPeer
  /\ variant \in Variants
  /\ args = [data_path |-> xlsx_path, similarity_threshold |-> 0,
             preprocess_func |-> IF variant = "eager" THEN "preprocess_sentences"
                                 ELSE "None",
             help_text |-> default_help_text, bot_prompt |-> default_bot_prompt]
  /\ \E kb \in KnowledgeBases, re \in [ResponseInputs -> ResponseVectors],
        qe \in [QuestionInputs -> QuestionVectors] :
       /\ Len(kb) = MaxKB
       /\ env = [dataExists |-> TRUE, modelExists |-> TRUE, pbExists |-> TRUE,
                 parseable |-> TRUE, loadable |-> TRUE,
                 columns |-> {"Context", "Answer"}, rows |-> kb,
                 response_encoder |-> re, question_encoder |-> qe]

\* one engine asked a sequence of questions
SpecAsk == InitAsk /\ [][NextAsk]_vars

SpecCtor == InitCtor /\ [][Next]_vars

----------------------------------------------------------------------------
(* Properties *)

\* the last operation was a get_response call that returned a string
Returned == last.op = "get_response" /\ last.outcome = "return"

\* the scores of the last question against the cache the engine holds
LastScores ==
  cosine_similarity(self.response_encodings.v,
                    env.question_encoder[re_sub(last.arg)])

Rows == 1..Len(env.rows)

\* C1: get_response returns the answer of a best-scoring entry exactly when
\* the maximum score is strictly greater than similarity_threshold; when the
\* maximum equals the threshold or is below it, the fallback message is
\* returned and no knowledge-base answer.
C1_StrictThreshold ==
  Returned =>
    LET sc == LastScores
        t == args.similarity_threshold
    IN IF \E i \in Rows : sc[i] > t
       THEN \E i \in Rows : /\ \A j \in Rows : sc[j] <= sc[i]
                            /\ last.value = env.rows[i].Answer
       ELSE /\ last.value = fallback(variant, args)
            /\ \A i \in Rows : last.value # env.rows[i].Answer

\* a query whose best score equals the threshold exactly got the fallback
C1_Witness ==
  /\ Returned
  /\ \E i \in Rows : LastScores[i] = args.similarity_threshold
  /\ \A i \in Rows : LastScores[i] <= args.similarity_threshold
  /\ last.value = fallback(variant, args)

\* C2: the response encoder succeeds at most once in the life of an engine,
\* and a query on an engine that already holds the cache invokes the question
\* encoder only and leaves the cache as it is.
C2_BuiltOnce ==
  /\ stats.respOk <= 1
  /\ (~self.response_encodings.none) => stats.respOk = 1
  /\ (last.op = "get_response" /\ last.cached) =>
       /\ last.respCalls = 0
       /\ last.qCalls = 1

\* the lazy engine answered a query from the cache built by an earlier query
C2_Witness ==
  /\ variant = "lazy"
  /\ Returned
  /\ last.cached
  /\ stats.queries >= 2
  /\ stats.respOk = 1

\* every construction input other than the threshold is valid
OtherInputsValid ==
  /\ env.dataExists /\ env.modelExists /\ env.pbExists
  /\ env.parseable /\ env.loadable
  /\ env.columns = {"Context", "Answer"}
  /\ args.data_path \in {csv_path, xlsx_path, xls_path}
  /\ variant = "eager" => args.preprocess_func = "preprocess_sentences"

\* the response encoder raised during __init__
InitEncoderFailed == last.op = "init" /\ last.respCalls > last.respOk

\* nothing was read, loaded or encoded
NothingDone ==
  /\ stats.kbReads = 0 /\ stats.modelLoads = 0 /\ stats.respOk = 0
  /\ last.respCalls = 0
  /\ ~self.data.loaded /\ ~self.model /\ self.response_encodings.none

\* C3: with the other inputs valid, construction succeeds for every
\* threshold strictly between -1.0 and 1.0 and raises for every threshold
\* <= -1.0 or >= 1.0, and then nothing was read, loaded or encoded.
C3_ThresholdRange ==
  (self.status # "none" /\ OtherInputsValid /\ ~InitEncoderFailed) =>
    IF -One < args.similarity_threshold /\ args.similarity_threshold < One
    THEN self.status = "ok"
    ELSE /\ self.status = "raised"
         /\ last.error = "AssertionError:similarity_threshold"
         /\ NothingDone

\* construction with the threshold exactly 1.0 was refused
C3_Witness ==
  /\ self.status = "raised"
  /\ OtherInputsValid
  /\ args.similarity_threshold = One
  /\ last.error = "AssertionError:similarity_threshold"

\* an encoder raised during the last get_response call
EncodingFailed ==
  /\ last.op = "get_response"
  /\ last.qFailed \/ last.respCalls > last.respOk

\* C4: an encoder failure during get_response is raised to the caller and
\* never returns a string; the fallback is returned only after both encoders
\* succeeded and no score exceeded the threshold.  In the console loop the
\* failure ends the loop: nothing is printed, the question is passed once,
\* and no further step is taken.
C4_FailureRaised ==
  /\ [](EncodingFailed => last.outcome = "raise" /\ last.value = <<>>)
  /\ []((Returned /\ last.value = fallback(variant, args)) =>
          /\ ~EncodingFailed
          /\ \A i \in Rows : LastScores[i] <= args.similarity_threshold)
  /\ []((loop.passed # <<>> /\ EncodingFailed) =>
          /\ loop.pc = "crashed"
          /\ loop.printed = <<>>
          /\ loop.passed = <<loop.line>>)
  /\ [][loop.pc = "crashed" => UNCHANGED vars]_vars

\* the question encoder raised in the console loop
C4_Witness ==
  /\ loop.pc = "crashed"
  /\ last.qFailed
  /\ last.outcome = "raise"

\* the line of the last pass of the console loop is a control input
IsControl(line) == lower(strip(line)) \in {exit_word, help_word, <<>>}

\* C5: a line that trimmed and lower-cased is "exit" ends the loop, "help"
\* prints the help text, the empty line prints nothing; none of them reaches
\* get_response.  Any other line is passed to get_response once, unchanged,
\* and what it returns is printed after the bot prompt.
C5_ControlWords ==
  /\ [](loop.pc # "off" =>
         LET k == lower(strip(loop.line))
         IN IF k = exit_word
            THEN loop.pc = "exited" /\ loop.printed = <<>> /\ loop.passed = <<>>
            ELSE IF k = help_word
            THEN /\ loop.pc = "running" /\ loop.passed = <<>>
                 /\ loop.printed = <<args.help_text>>
            ELSE IF k = <<>>
            THEN loop.pc = "running" /\ loop.printed = <<>> /\ loop.passed = <<>>
            ELSE /\ loop.passed = <<loop.line>>
                 /\ last.op = "get_response" /\ last.arg = loop.line
                 /\ last.outcome = "return" =>
                      /\ loop.pc = "running"
                      /\ loop.printed = <<args.bot_prompt \o <<" ">> \o last.value>>)
  /\ [][loop.pc = "running" =>
          IF IsControl(loop'.line)
          THEN UNCHANGED <<self, stats, last>>
          ELSE stats'.queries = stats.queries + 1]_vars

\* "  HELP  " printed the help text
C5_Witness ==
  /\ loop.pc = "running"
  /\ loop.line = <<" "," ","H","E","L","P"," "," ">>
  /\ loop.printed = <<args.help_text>>
  /\ stats.queries = 0

\* C6: once the cache is built it is as long as the knowledge base, its i-th
\* vector is the encoding of answer i with context i, and the knowledge base
\* is the one loaded; this stays so over every later call.
C6_CacheAligned ==
  (~self.response_encodings.none) =>
    /\ self.data.rows = env.rows
    /\ Len(self.response_encodings.v) = Len(self.data.rows)
    /\ \A i \in Rows :
         self.response_encodings.v[i] =
           env.response_encoder[<<re_sub(env.rows[i].Answer),
                                  re_sub(env.rows[i].Context)>>]

\* a cache over rows with different encodings, after a further query
C6_Witness ==
  /\ ~self.response_encodings.none
  /\ Len(self.response_encodings.v) >= 2
  /\ self.response_encodings.v[1] # self.response_encodings.v[2]
  /\ last.op = "get_response" /\ last.cached

\* C7: errors of the construction inputs are raised by __init__, so no
\* get_response call on a constructed engine raises an error of the data
\* source (a missing file, an unsupported format, a missing "Context" or
\* "Answer" column); only an encoding error may first appear on a query.
C7_DataErrorsAtConstruction ==
  (last.op = "get_response" /\ last.outcome = "raise") =>
    /\ last.error = "EncodingError"
    /\ {"Context", "Answer"} \subseteq env.columns

\* the position of the last "." of a path, 0 when it has none
LastDot(path) ==
  IF \E i \in 1..Len(path) : path[i] = "."
  THEN CHOOSE i \in 1..Len(path) :
         /\ path[i] = "."
         /\ \A j \in (i + 1)..Len(path) : path[j] # "."
  ELSE 0

\* the file extension of a path, from its last "." on
Extension(path) ==
  IF LastDot(path) = 0 THEN <<>> ELSE SubSeq(path, LastDot(path), Len(path))

SupportedExtensions ==
  { <<".">> \o csv_suffix, <<".">> \o xlsx_suffix, <<".">> \o xls_suffix }

\* C8: a data path whose extension is not .csv, .xlsx or .xls makes
\* construction raise, and no engine is returned.
C8_ExtensionChecked ==
  (self.status # "none" /\ Extension(args.data_path) \notin SupportedExtensions) =>
    self.status = "raised"

\* C9: of the entries sharing the maximum score the one of lowest index is
\* selected: the returned answer is that of the index i with score[i] the
\* maximum and score[j] < score[i] for every j < i.
C9_LowestIndexWins ==
  (Returned /\ \E i \in Rows : LastScores[i] > args.similarity_threshold) =>
    \E i \in Rows :
      /\ \A j \in Rows : LastScores[j] <= LastScores[i]
      /\ \A j \in Rows : j < i => LastScores[j] < LastScores[i]
      /\ last.value = env.rows[i].Answer

\* two entries with different answers tied for the maximum, and an answer
\* was returned
C9_Witness ==
  /\ Returned
  /\ \E i, k \in Rows :
       /\ i < k
       /\ LastScores[i] = LastScores[k]
       /\ env.rows[i].Answer # env.rows[k].Answer
       /\ LastScores[i] > args.similarity_threshold
       /\ \A j \in Rows : LastScores[j] <= LastScores[i]
       /\ last.value = env.rows[i].Answer

\* C10: the eager engine given no preprocess_func (None) or a value that is
\* not callable raises in __init__ before anything is read, loaded or
\* encoded, with the assertion on preprocess_func when every other input is
\* valid; no engine exists that could defer the failure to a query.
C10_PreprocessChecked ==
  (variant = "eager" /\ self.status # "none"
     /\ args.preprocess_func # "preprocess_sentences") =>
    /\ self.status = "raised"
    /\ NothingDone
    /\ stats.queries = 0
    /\ (/\ env.dataExists /\ env.modelExists /\ env.pbExists
        /\ -One < args.similarity_threshold /\ args.similarity_threshold < One)
         => last.error = "AssertionError:preprocess_func"

\* the default None was refused with every other input valid
C10_Witness ==
  /\ variant = "eager"
  /\ args.preprocess_func = "None"
  /\ env.dataExists /\ env.modelExists /\ env.pbExists
  /\ env.parseable /\ env.loadable /\ env.columns = {"Context", "Answer"}
  /\ args.data_path = xlsx_path
  /\ args.similarity_threshold = 0
  /\ self.status = "raised"
  /\ last.error = "AssertionError:preprocess_func"

----------------------------------------------------------------------------
(* preprocess_sentences called on its own *)

\* pieces of the sentences
Tokens ==
  { <<"c","o">>, <<"v","i","d">>, <<"C","o","V","i","D">>, <<"-","1","9">>,
    <<"-","1">>, <<" ","x">>, coronavirus }

RECURSIVE Sentences(_)
Sentences(n) ==
  IF n = 0 THEN {<<>>}
  ELSE LET shorter == Sentences(n - 1)
       IN shorter \cup {r \o t : r \in shorter, t \in Tokens}

\* lists of sentences: the empty list, one sentence, two sentences
SentenceLists ==
  {<<>>} \cup {<<x>> : x \in Sentences(MaxTokens)}
         \cup {<<x, y>> : x \in Sentences(MaxTokens),
                         y \in {<<"C","O","V","I","D","-","1","9">>, <<"x">>}}

\* the engine plays no part
InitPre ==
  /\ InitCommon
  /\ peer = NoPeer
  /\ variant = "lazy"
  /\ args = [data_path |-> xlsx_path, similarity_threshold |-> 0,
             preprocess_func |-> "None",
             help_text |-> default_help_text, bot_prompt |-> default_bot_prompt]
  /\ env = [dataExists |-> TRUE, modelExists |-> TRUE, pbExists |-> TRUE,
            parseable |-> TRUE, loadable |-> TRUE,
            columns |-> {"Context", "Answer"},
            rows |-> <<CHOOSE x \in Entries : x.Answer = <<"b">>>>,
            response_encoder |-> [x \in ResponseInputs |-> <<Half, 0>>],
            question_encoder |-> [x \in QuestionInputs |-> <<Half, 0>>]]
  /\ \E l \in SentenceLists : pp = [NoPP EXCEPT !.input = l]

\* preprocess_sentences(input_sentences), then preprocess_sentences of what
\* it returned; the list comprehension builds a new list each time
Preprocess ==
  /\ pp.step < 2
  /\ pp' = IF pp.step = 0
           THEN [pp EXCEPT !.step = 1, !.output = preprocess_sentences(pp.input)]
           ELSE [pp EXCEPT !.step = 2, !.again = preprocess_sentences(pp.output)]
  /\ UNCHANGED <<variant, args, env, self, stats, last, loop, hist, peer>>

NextPre == Preprocess

SpecPre == InitPre /\ [][NextPre]_vars

----------------------------------------------------------------------------
(* The two engines side by side *)

\* the questions put to both engines: one the substitution rewrites, one
\* it leaves alone
PairQuestions == {q \in Questions : Len(q) > Len(covid)}

\* what the signatures of the saved model are defined on: the substituted
\* texts the engines pass and the texts as they are written
AllResponseInputs == ResponseInputs \cup {<<x.Answer, x.Context>> : x \in Entries}
AllQuestionInputs == QuestionInputs \cup PairQuestions

\* a lazy engine (self) and an eager engine given preprocess_sentences
\* (peer.self), on one knowledge base, one saved model and the threshold 0
InitPair ==
  /\ InitCommon
  /\ pp = NoPP
  /\ peer = NoPeer
  /\ variant = "lazy"
  /\ args = [data_path |-> xlsx_path, similarity_threshold |-> 0,
             preprocess_func |-> "preprocess_sentences",
             help_text |-> default_help_text, bot_prompt |-> default_bot_prompt]
  /\ \E kb \in KnowledgeBases, re \in [AllResponseInputs -> ResponseVectors],
        qe \in [AllQuestionInputs -> QuestionVectors] :
       /\ Len(kb) = MaxKB
       /\ env = [dataExists |-> TRUE, modelExists |-> TRUE, pbExists |-> TRUE,
                 parseable |-> TRUE, loadable |-> TRUE,
                 columns |-> {"Context", "Answer"}, rows |-> kb,
                 response_encoder |-> re, question_encoder |-> qe]

\* both engines are constructed; fault is the response encoder raising in
\* the eager __init__
PairConstruct(fault) ==
  /\ self.status = "none"
  /\ peer.self.status = "none"
  /\ LET r == init("lazy", args, env, FALSE)
         p == init("eager", args, env, fault)
     IN /\ self' = r.self
        /\ peer' = [NoPeer EXCEPT !.self = p.self]
        /\ stats' = [stats EXCEPT !.kbReads = r.kbReads, !.modelLoads = r.modelLoads,
                                  !.respOk = r.respOk]
        /\ last' = [NoLast EXCEPT !.op = "init",
                                  !.outcome = IF r.error = "" THEN "return" ELSE "raise",
                                  !.error = r.error,
                                  !.respCalls = r.respCalls, !.respOk = r.respOk]
  /\ UNCHANGED <<variant, args, env, loop, hist, pp>>

\* the same question put to both engines: get_response of the lazy engine,
\* then get_response of the eager one, each with its own encoder failures
\* (the response encoder can fail only in the call that builds the cache,
\* and the question encoder is not reached when it does)
PairAsk(question, faultR, faultQ, faultP) ==
  /\ self.status = "ok"
  /\ peer.self.status = "ok"
  /\ stats.queries < MaxQueries
  /\ faultR => (cache_missing("lazy", self) /\ ~faultQ)
  /\ LET r == get_response("lazy", args, env, self, question, faultR, faultQ)
         p == get_response("eager", args, env, peer.self, question, FALSE, faultP)
     IN /\ self' = r.self
        /\ stats' = Counted(r)
        /\ last' = Called(question, r, faultQ)
        /\ hist' = Remembered(question, r)
        /\ peer' = [self |-> p.self, outcome |-> p.outcome, value |-> p.value,
                    index |-> p.index, lazyIndex |-> r.index]
  /\ UNCHANGED <<variant, args, env, loop, pp>>

NextPair ==
  \/ \E fault \in BOOLEAN : PairConstruct(fault)
  \/ \E q \in PairQuestions, faultR, faultQ, faultP \in BOOLEAN :
       PairAsk(q, faultR, faultQ, faultP)

SpecPair == InitPair /\ [][NextPair]_vars

----------------------------------------------------------------------------
(* Properties of repeated questions and of preprocessing *)

\* C11: a question asked again on the same engine gets the string it got
\* the first time, whichever questions were asked in between and also when
\* the first call was the one that built the cache.
C11_SameAnswer ==
  (Returned /\ hist[last.arg].seen) => last.value = hist[last.arg].value

\* the lazy engine built its cache answering a question with a
\* knowledge-base answer, answered another question, and was asked the first
\* one again
C11_Witness ==
  /\ variant = "lazy"
  /\ Returned
  /\ stats.queries = 3
  /\ hist[last.arg].at = 1
  /\ hist[last.arg].built
  /\ last.value # fallback(variant, args)
  /\ \E q \in Questions : q # last.arg /\ hist[q].at = 2

\* word occurs in s at position i, in any letter case
OccursAt(s, i, word) ==
  /\ i + Len(word) - 1 <= Len(s)
  /\ lower(SubSeq(s, i, i + Len(word) - 1)) = word

\* the length of the occurrence of "covid-19" or "covid" that starts at i,
\* 0 when there is none
OccurrenceAt(s, i) ==
  IF OccursAt(s, i, covid19) THEN Len(covid19)
  ELSE IF OccursAt(s, i, covid) THEN Len(covid)
  ELSE 0

\* what position i of s becomes: "coronavirus" where an occurrence starts,
\* nothing inside an occurrence, the character itself elsewhere
PieceAt(s, i) ==
  IF OccurrenceAt(s, i) > 0 THEN coronavirus
  ELSE IF \E p \in 1..(i - 1) : OccurrenceAt(s, p) > 0 /\ i < p + OccurrenceAt(s, p)
       THEN <<>>
  ELSE <<s[i]>>

RECURSIVE PiecesUpTo(_, _)
PiecesUpTo(s, n) == IF n = 0 THEN <<>> ELSE PiecesUpTo(s, n - 1) \o PieceAt(s, n)

\* s with every occurrence replaced as a whole and the rest as it was
Replaced(s) == PiecesUpTo(s, Len(s))

\* C12: preprocess returns a list of the same length and order in which
\* every occurrence of "covid-19" or "covid", in any letter case, is replaced
\* as a whole by "coronavirus" and all other text is unchanged; no occurrence
\* is left; the input list is not modified; preprocessing the output again
\* changes nothing.
C12_Preprocess ==
  /\ [](pp.step >= 1 =>
          /\ Len(pp.output) = Len(pp.input)
          /\ \A k \in 1..Len(pp.input) :
               /\ pp.output[k] = Replaced(pp.input[k])
               /\ \A i \in 1..Len(pp.output[k]) : ~OccursAt(pp.output[k], i, covid))
  /\ [](pp.step = 2 => pp.again = pp.output)
  /\ [][pp'.input = pp.input]_vars

\* two sentences, one with "CoViD-19" after other text, were preprocessed
\* twice
C12_Witness ==
  /\ pp.step = 2
  /\ Len(pp.input) = 2
  /\ \E i \in 2..Len(pp.input[1]) : OccursAt(pp.input[1], i, covid19)
  /\ pp.input[1] # pp.input[2]
  /\ pp.output # pp.input

\* C13: a lazy engine and an eager engine given the covid substitution, on
\* the same knowledge base, threshold and questions, select the same
\* knowledge-base index and take the same match-or-fallback decision for
\* every question both answer; on a match they return the same answer, on
\* a fallback the eager engine returns its unknown-answer sentence and the
\* lazy one its default sentence followed by the help text
C13_SameDecision ==
  (Returned /\ peer.outcome = "return") =>
    /\ peer.index = peer.lazyIndex
    /\ (last.value = fallback("lazy", args)) <=> (peer.value = fallback("eager", args))
    /\ last.value # fallback("lazy", args) =>
         /\ last.value = peer.value
         /\ last.value = self.data.rows[peer.index]["Answer"]
    /\ last.value = fallback("lazy", args) =>
         /\ peer.value = UNKNOWN_ANSWER
         /\ last.value = default_response \o <<"\n", " ">> \o args.help_text
         /\ last.value # peer.value

\* the first question fell back in both engines; the second one, which the
\* substitution rewrites, is matched by both with the second row, whose
\* answer is not that of the first row
C13_Witness ==
  /\ Returned /\ peer.outcome = "return"
  /\ stats.queries = 2
  /\ last.arg = <<"C","O","V","I","D","-","1","9">>
  /\ peer.index = 2 /\ peer.lazyIndex = 2
  /\ peer.value = last.value /\ peer.value # UNKNOWN_ANSWER
  /\ self.data.rows[1]["Answer"] # self.data.rows[2]["Answer"]
  /\ \E q \in Questions :
       /\ q # last.arg
       /\ hist[q].at = 1
       /\ hist[q].value = fallback("lazy", args)

====
